---- MODULE Spec2Model ----
(***************************************************************************)
(* A model of backend/main.py: the route extractor, the topology builder,  *)
(* the snapshot store with its change detection, the broadcaster, the poll *)
(* loop and the websocket handlers, as one state machine.                  *)
(*                                                                         *)
(* Python strings are sequences of one-character strings, so that split,   *)
(* startswith, endswith and indexing are computed as the code computes     *)
(* them.  A JSON value is a tagged record:                                 *)
(*   [t |-> "dict", kv |-> << <<key, value>>, ... >>]  (insertion order)   *)
(*   [t |-> "list", items |-> << value, ... >>]                            *)
(*   [t |-> "str",  s |-> << "c", ... >>]                                  *)
(*   [t |-> "num",  n |-> Int]       [t |-> "null"]                        *)
(* An evaluation that may raise yields [exc |-> "none", v |-> value] or    *)
(* [exc |-> "<ExceptionName>"].                                            *)
(***************************************************************************)
EXTENDS Integers, Sequences, FiniteSets, TLC

(***************************************************************************)
(* Python values and the operations main.py applies to them                *)
(***************************************************************************)

JStr(s) == [t |-> "str", s |-> s]
JNull == [t |-> "null"]
JList(items) == [t |-> "list", items |-> items]
JDict(kv) == [t |-> "dict", kv |-> kv]

Ok(v) == [exc |-> "none", v |-> v]
Raise(e) == [exc |-> e]

Range(f) == {f[i] : i \in DOMAIN f}

MinOf(S) == CHOOSE i \in S : \A j \in S : i <= j

Last(seq) == seq[Len(seq)]

\* str.startswith(p)
startswith(s, p) == Len(s) >= Len(p) /\ SubSeq(s, 1, Len(p)) = p

\* str.endswith(p)
endswith(s, p) == Len(s) >= Len(p) /\ SubSeq(s, Len(s) - Len(p) + 1, Len(s)) = p

\* str.split(sep): the parts between the occurrences of sep, left to right
RECURSIVE split(_, _)
split(s, sep) ==
    LET n == Len(sep)
        hits == {i \in 1..(Len(s) - n + 1) : SubSeq(s, i, i + n - 1) = sep}
    IN  IF hits = {}
        THEN <<s>>
        ELSE LET i == MinOf(hits)
             IN  <<SubSeq(s, 1, i - 1)>> \o split(SubSeq(s, i + n, Len(s)), sep)


HasKey(d, k) == \E i \in 1..Len(d.kv) : d.kv[i][1] = k

Lookup(d, k) == d.kv[CHOOSE i \in 1..Len(d.kv) : d.kv[i][1] = k][2]

\* v[k] with a string key
subscript_str(v, k) ==
    IF v.t = "dict"
    THEN IF HasKey(v, k) THEN Ok(Lookup(v, k)) ELSE Raise("KeyError")
    ELSE Raise("TypeError")

\* v[i] with an integer index i >= 0
subscript_int(v, i) ==
    CASE v.t = "dict" -> Raise("KeyError")
      [] v.t = "list" -> IF i < Len(v.items) THEN Ok(v.items[i + 1]) ELSE Raise("IndexError")
      [] v.t = "str" -> IF i < Len(v.s) THEN Ok(JStr(<<v.s[i + 1]>>)) ELSE Raise("IndexError")
      [] OTHER -> Raise("TypeError")

\* r[k] and r[i] on the result of an earlier evaluation
getitem_str(r, k) == IF r.exc # "none" THEN r ELSE subscript_str(r.v, k)

getitem_int(r, i) == IF r.exc # "none" THEN r ELSE subscript_int(r.v, i)

\* v.get(k, default): only a dict has the method
dict_get(v, k, default) ==
    IF v.t = "dict"
    THEN Ok(IF HasKey(v, k) THEN Lookup(v, k) ELSE default)
    ELSE Raise("AttributeError")

get(r, k, default) == IF r.exc # "none" THEN r ELSE dict_get(r.v, k, default)

\* `not v`
falsy(v) ==
    CASE v.t = "dict" -> v.kv = <<>>
      [] v.t = "list" -> v.items = <<>>
      [] v.t = "str" -> v.s = <<>>
      [] v.t = "num" -> v.n = 0
      [] OTHER -> TRUE

\* `for x in v`: the items of a list, the keys of a dict, the characters of a str
iterate(v) ==
    CASE v.t = "list" -> Ok(v.items)
      [] v.t = "dict" -> Ok([i \in 1..Len(v.kv) |-> JStr(<<v.kv[i][1]>>)])
      [] v.t = "str" -> Ok([i \in 1..Len(v.s) |-> JStr(<<v.s[i]>>)])
      [] OTHER -> Raise("TypeError")

\* hash(v) raises for a list or a dict
hashable(v) == v.t \notin {"list", "dict"}


(***************************************************************************)
(* Python's set: iteration follows the hashes of the elements, which are   *)
(* fixed for the lifetime of a process (PYTHONHASHSEED) and differ from    *)
(* one process to the next.  hash_order is the order a set of these        *)
(* values is iterated in under a given seed.                               *)
(***************************************************************************)

Reverse(seq) == [i \in 1..Len(seq) |-> seq[Len(seq) + 1 - i]]

\* the elements of S in the order they stand in `order`
set_iter(S, order) == SelectSeq(order, LAMBDA e : e \in S)

(***************************************************************************)
(* networkx.Graph as main.py uses it: nodes and adjacency keep insertion   *)
(* order, an edge has one data dict whichever way round it was added.      *)
(***************************************************************************)

EmptyGraph == [nodes |-> <<>>, label |-> <<>>, adj |-> <<>>, elabel |-> <<>>]

has_node(G, n) == n \in Range(G.nodes)

\* G.add_node(n) with no attribute
add_bare_node(G, n) ==
    IF has_node(G, n)
    THEN G
    ELSE [G EXCEPT !.nodes = Append(G.nodes, n), !.adj = (n :> <<>>) @@ G.adj]

\* a node container that keeps every node it is given, as a list would
add_node_append(G, n, l) ==
    [G EXCEPT !.nodes = Append(G.nodes, n),
              !.adj = (n :> <<>>) @@ G.adj,
              !.label = (n :> l) @@ G.label]

\* G.add_node(n, label=l): a node that exists has its attribute overwritten
add_node(G, n, l) ==
    LET G1 == add_bare_node(G, n)
    IN  [G1 EXCEPT !.label = (n :> l) @@ G1.label]

adj_put(seq, n) == IF n \in Range(seq) THEN seq ELSE Append(seq, n)

\* G.add_edge(u, v, label=l): an edge that exists has its label overwritten
add_edge(G, u, v, l) ==
    LET G1 == add_bare_node(add_bare_node(G, u), v)
        a1 == [G1.adj EXCEPT ![u] = adj_put(@, v)]
        a2 == [a1 EXCEPT ![v] = adj_put(@, u)]
    IN  [G1 EXCEPT !.adj = a2,
                   !.elabel = (<<u, v>> :> l) @@ (<<v, u>> :> l) @@ G1.elabel]

\* G.edges(data=True): each edge once, reported from the endpoint visited first
RECURSIVE edges_from(_, _)
edges_from(G, i) ==
    IF i > Len(G.nodes)
    THEN <<>>
    ELSE LET n == G.nodes[i]
             seen == {G.nodes[j] : j \in 1..(i - 1)}
             nbrs == SelectSeq(G.adj[n], LAMBDA m : m \notin seen)
         IN  [k \in 1..Len(nbrs) |->
                 [from |-> n, to |-> nbrs[k], label |-> G.elabel[<<n, nbrs[k]>>]]]
             \o edges_from(G, i + 1)

\* lines 174-177: the graph as {"nodes": [...], "edges": [...]}
graph_to_json(G) ==
    [nodes |-> [i \in 1..Len(G.nodes) |->
                   [id |-> G.nodes[i],
                    label |-> IF G.nodes[i] \in DOMAIN G.label
                              THEN G.label[G.nodes[i]] ELSE G.nodes[i]]],
     edges |-> edges_from(G, 1)]

(***************************************************************************)
(* The literals of main.py                                                 *)
(***************************************************************************)

\* '192.168.7.' (line 119)
NodeMarker == <<"1", "9", "2", ".", "1", "6", "8", ".", "7", ".">>

\* '/32' (lines 111, 119)
Suffix32 == <<"/", "3", "2">>

\* "10.85." (line 151)
LinkMarker == <<"1", "0", ".", "8", "5", ".">>

\* "/30" (line 167)
Suffix30 == <<"/", "3", "0">>

\* the snapshot of lines 185 and 177 with nothing in it
EmptySnapshot == [nodes |-> <<>>, edges |-> <<>>]

(***************************************************************************)
(* STEP 2: extract_routes (lines 70-95)                                    *)
(***************************************************************************)

\* the results of a sequence of evaluations, joined; the first exception wins
RECURSIVE join_results(_)
join_results(rs) ==
    IF rs = <<>>
    THEN Ok(<<>>)
    ELSE IF Head(rs).exc # "none"
         THEN Head(rs)
         ELSE LET rest == join_results(Tail(rs))
              IN  IF rest.exc # "none" THEN rest ELSE Ok(Head(rs).v \o rest.v)

\* lines 80-81 and 87-88: for route in ipv4_routes: routes.append({"prefix": ...})
routes_of_table(table) ==
    LET ipv4_routes == get(get(Ok(table), "bgp-inet:ipv4-routes", JDict(<<>>)),
                           "ipv4-route", JList(<<>>))
        it == IF ipv4_routes.exc # "none" THEN ipv4_routes ELSE iterate(ipv4_routes.v)
    IN  IF it.exc # "none"
        THEN it
        ELSE join_results([i \in 1..Len(it.v) |->
                 LET p == dict_get(it.v[i], "prefix", JStr(<<>>))
                 IN  IF p.exc # "none" THEN p ELSE Ok(<<[prefix |-> p.v]>>)])

\* lines 78-81 and 85-88: for table in tables
routes_of_tables(tables) ==
    LET it == IF tables.exc # "none" THEN tables ELSE iterate(tables.v)
    IN  IF it.exc # "none"
        THEN it
        ELSE join_results([i \in 1..Len(it.v) |-> routes_of_table(it.v[i])])

\* lines 83-88: for peer in rib[0].get("peer", [])
routes_of_peers(peers) ==
    LET it == IF peers.exc # "none" THEN peers ELSE iterate(peers.v)
    IN  IF it.exc # "none"
        THEN it
        ELSE join_results([i \in 1..Len(it.v) |->
                 routes_of_tables(get(get(Ok(it.v[i]), "effective-rib-in", JDict(<<>>)),
                                      "tables", JList(<<>>)))])

\* line 90: [dict(t) for t in {tuple(d.items()) for d in routes}]; `order` is the
\* iteration order of that set of tuples
unique_routes(routes, order) ==
    IF \E i \in 1..Len(routes) : ~hashable(routes[i].prefix)
    THEN Raise("TypeError")
    ELSE Ok(set_iter(Range(routes), order))

\* lines 72-91, the body of the try
extract_routes_try(bgp_data, order) ==
    LET rib == dict_get(bgp_data, "bgp-rib:rib", JList(<<>>))
    IN  IF rib.exc # "none"
        THEN rib
        ELSE IF falsy(rib.v)
             THEN Ok(<<>>)
             ELSE LET rib0 == subscript_int(rib.v, 0)
                      loc == routes_of_tables(get(get(rib0, "loc-rib", JDict(<<>>)),
                                                  "tables", JList(<<>>)))
                      peer == routes_of_peers(get(rib0, "peer", JList(<<>>)))
                      all == join_results(<<loc, peer>>)
                  IN  IF all.exc # "none" THEN all ELSE unique_routes(all.v, order)

\* lines 70-95: any exception is caught and an empty list returned
extract_routes(bgp_data, order) ==
    LET r == extract_routes_try(bgp_data, order)
    IN  IF r.exc # "none" THEN <<>> ELSE r.v

(***************************************************************************)
(* STEP 3: build_dynamic_topology (lines 101-177)                          *)
(***************************************************************************)

\* the lookup with `except KeyError` alone: an empty list ends the build
local_ip_prefix_keyerror_only(bgp_data) ==
    LET peer_id == getitem_str(getitem_int(getitem_str(getitem_int(
                       subscript_str(bgp_data, "bgp-rib:rib"), 0), "peer"), 0), "peer-id")
    IN  IF peer_id.exc = "KeyError"
        THEN Ok(<<>>)
        ELSE IF peer_id.exc # "none"
             THEN peer_id
             ELSE IF peer_id.v.t # "str"
                  THEN Raise("AttributeError")
                  ELSE Ok(<<Last(split(peer_id.v.s, <<"/", "/">>)) \o Suffix32>>)

\* lines 106-114: [exc, v] with v the local prefix, or <<>> for None.  KeyError
\* and IndexError are caught; any other exception leaves the function.
local_ip_prefix(bgp_data) ==
    LET peer_id == getitem_str(getitem_int(getitem_str(getitem_int(
                       subscript_str(bgp_data, "bgp-rib:rib"), 0), "peer"), 0), "peer-id")
    IN  IF peer_id.exc \in {"KeyError", "IndexError"}
        THEN Ok(<<>>)
        ELSE IF peer_id.exc # "none"
             THEN peer_id
             ELSE IF peer_id.v.t # "str"
                  THEN Raise("AttributeError")
                  ELSE Ok(<<Last(split(peer_id.v.s, <<"/", "/">>)) \o Suffix32>>)

\* lines 117-120: the set comprehension over routes
route_node_prefixes(routes) ==
    IF \E i \in 1..Len(routes) : routes[i].prefix.t # "str"
    THEN Raise("AttributeError")
    ELSE Ok({routes[i].prefix.s : i \in
                {j \in 1..Len(routes) : /\ startswith(routes[j].prefix.s, NodeMarker)
                                        /\ endswith(routes[j].prefix.s, Suffix32)}})

\* lines 129-132: one candidate prefix becomes a node
add_prefix_node(G, prefix) ==
    LET ip_str == split(prefix, <<"/">>)[1]
        router_num == Last(split(ip_str, <<".">>))
        node_id == <<"R">> \o router_num
    IN  add_node(G, node_id, ip_str)

\* lines 127-135: for prefix in node_prefixes
RECURSIVE add_prefix_nodes(_, _)
add_prefix_nodes(G, prefixes) ==
    IF prefixes = <<>>
    THEN G
    ELSE add_prefix_nodes(add_prefix_node(G, Head(prefixes)), Tail(prefixes))

\* lines 138-147: every str of the document that starts with the pattern
RECURSIVE find_prefixes_recursively(_, _)
find_prefixes_recursively(data, pattern) ==
    CASE data.t = "dict" ->
             UNION {find_prefixes_recursively(data.kv[i][2], pattern) : i \in 1..Len(data.kv)}
      [] data.t = "list" ->
             UNION {find_prefixes_recursively(data.items[i], pattern) : i \in 1..Len(data.items)}
      [] data.t = "str" -> IF startswith(data.s, pattern) THEN {data.s} ELSE {}
      [] OTHER -> {}

\* the edge added without the has_node test: add_edge creates missing endpoints
add_link_edge_unchecked(G, node1_id, node2_id, network_address) ==
    add_edge(G, node1_id, node2_id, network_address \o Suffix30)

\* lines 165-168: the edge is added only between two nodes the graph has
add_link_edge(G, node1_id, node2_id, network_address) ==
    IF has_node(G, node1_id) /\ has_node(G, node2_id)
    THEN add_edge(G, node1_id, node2_id, network_address \o Suffix30)
    ELSE G

\* lines 155-171: one link prefix
process_link_prefix(G, link_prefix) ==
    LET network_address == split(link_prefix, <<"/">>)[1]
        parts == split(network_address, <<".">>)
    IN  IF Len(parts) < 3
        THEN G
        ELSE LET third_octet == parts[3]
             IN  IF Len(third_octet) = 2
                 THEN add_link_edge(G, <<"R", third_octet[1]>>, <<"R", third_octet[2]>>,
                                    network_address)
                 ELSE G

\* lines 154-171: for link_prefix in link_prefixes
RECURSIVE process_link_prefixes(_, _)
process_link_prefixes(G, links) ==
    IF links = <<>>
    THEN G
    ELSE process_link_prefixes(process_link_prefix(G, Head(links)), Tail(links))

\* lines 101-177; `order` is the iteration order of this process's sets of str
build_dynamic_topology(routes, bgp_data, order) ==
    LET local == local_ip_prefix(bgp_data)
        cands == route_node_prefixes(routes)
    IN  IF local.exc # "none"
        THEN local
        ELSE IF cands.exc # "none"
             THEN cands
             ELSE LET node_prefixes == cands.v \cup Range(local.v)
                      G1 == add_prefix_nodes(EmptyGraph, set_iter(node_prefixes, order))
                      link_prefixes == find_prefixes_recursively(bgp_data, LinkMarker)
                      G2 == process_link_prefixes(G1, set_iter(link_prefixes, order))
                  IN  Ok(graph_to_json(G2))

(***************************************************************************)
(* The documents the controller is taken to answer with, and the strings   *)
(* in them                                                                 *)
(***************************************************************************)

NodeIp(d) == NodeMarker \o d
NodePrefix(d) == NodeIp(d) \o Suffix32
LinkPrefix(o3, o4, mask) == LinkMarker \o o3 \o <<".">> \o o4 \o <<"/">> \o mask
PeerId(ip) == <<"b", "g", "p", ":", "/", "/">> \o ip

P1 == NodePrefix(<<"1">>)
P2 == NodePrefix(<<"2">>)
P3 == NodePrefix(<<"3">>)
\* "192.168.7.2.1/32": a candidate whose last octet is that of P1
P21 == NodePrefix(<<"2", ".", "1">>)
\* "192.168.7.0/24": a route that is no node candidate
Subnet24 == NodeMarker \o <<"0", "/", "2", "4">>
\* "10.0.0.1": a local router outside the node subnet, last octet 1
OtherIp == <<"1", "0", ".", "0", ".", "0", ".", "1">>

L12 == LinkPrefix(<<"1", "2">>, <<"0">>, <<"3", "0">>)
L12m24 == LinkPrefix(<<"1", "2">>, <<"0">>, <<"2", "4">>)
L12h5 == LinkPrefix(<<"1", "2">>, <<"5">>, <<"3", "2">>)
L13 == LinkPrefix(<<"1", "3">>, <<"0">>, <<"3", "0">>)
L21 == LinkPrefix(<<"2", "1">>, <<"0">>, <<"3", "0">>)
L14 == LinkPrefix(<<"1", "4">>, <<"0">>, <<"3", "0">>)
L123 == LinkPrefix(<<"1", "2", "3">>, <<"0">>, <<"3", "0">>)

\* "192.168.7.x/32" and "192.168.7./32": routes of the node subnet whose
\* address is no dotted quad
Px == NodePrefix(<<"x">>)
P0 == NodePrefix(<<>>)
\* "10.85.1x.0/30" and "10.85.1.0/30": third octets that are not two digits
L1x == LinkPrefix(<<"1", "x">>, <<"0">>, <<"3", "0">>)
L1 == LinkPrefix(<<"1">>, <<"0">>, <<"3", "0">>)

Route(p) == JDict(<< <<"prefix", JStr(p)>> >>)

Table(ps) ==
    JDict(<< <<"bgp-inet:ipv4-routes",
               JDict(<< <<"ipv4-route", JList([i \in 1..Len(ps) |-> Route(ps[i])])>> >>)>> >>)

Peer(id, ps) ==
    JDict(<< <<"peer-id", JStr(id)>>,
             <<"effective-rib-in", JDict(<< <<"tables", JList(<<Table(ps)>>)>> >>)>> >>)

PeerNoId(ps) ==
    JDict(<< <<"effective-rib-in", JDict(<< <<"tables", JList(<<Table(ps)>>)>> >>)>> >>)

RibDoc(loc, peers) ==
    JDict(<< <<"bgp-rib:rib",
               JList(<<JDict(<< <<"loc-rib", JDict(<< <<"tables", JList(<<Table(loc)>>)>> >>)>>,
                                <<"peer", JList(peers)>> >>)>>)>> >>)

\* the end-to-end document of the specification
DocE2E == RibDoc(<<P1, P2>>, <<Peer(PeerId(NodeIp(<<"1">>)), <<L12h5>>)>>)
\* three routers, two links
DocTri == RibDoc(<<P2, P3, L12, L13>>, <<Peer(PeerId(NodeIp(<<"1">>)), <<>>)>>)
\* the same, one link advertised with another mask
DocTriMask == RibDoc(<<P2, P3, L12m24, L13>>, <<Peer(PeerId(NodeIp(<<"1">>)), <<>>)>>)
\* local router 10.0.0.1 and route 192.168.7.1/32 both give R1; two links give R1-R2
DocCollapse == RibDoc(<<P1, P2, Subnet24>>, <<Peer(PeerId(OtherIp), <<L12, L21>>)>>)
\* no peer-id; a link to a router that is no node, a three-character third octet
DocNoPeerId == RibDoc(<<P1, P2, L12>>, <<PeerNoId(<<P3, L14, L123, P1>>)>>)
\* a local router and no route
DocLocalOnly == RibDoc(<<>>, <<Peer(PeerId(NodeIp(<<"1">>)), <<>>)>>)
\* {"bgp-rib:rib": []}
DocEmptyRib == JDict(<< <<"bgp-rib:rib", JList(<<>>)>> >>)
\* {}
DocEmpty == JDict(<<>>)
\* {"bgp-rib:rib": "x"}: valid JSON of another shape
DocBadRib == JDict(<< <<"bgp-rib:rib", JStr(<<"x">>)>> >>)

Docs == {DocE2E, DocTri, DocTriMask, DocCollapse, DocNoPeerId, DocLocalOnly,
         DocEmptyRib, DocEmpty, DocBadRib}

\* every str that reaches a set of the extractor or of the builder
StrUniverse == <<P1, P2, P3, P21, OtherIp \o Suffix32, Subnet24,
                 L12, L13, L12m24, L12h5, L21, L14, L123, <<>>,
                 Px, P0, L1x, L1 >>

NumSeeds == 2

Seeds == 1..NumSeeds

Rotate(seq, k) == [i \in 1..Len(seq) |-> seq[((i - 1 + k) % Len(seq)) + 1]]

\* the iteration order of a set of str under a seed: two seeds in a row give
\* opposite orders of every pair
str_hash_order(seed) ==
    IF seed % 2 = 1
    THEN Rotate(StrUniverse, seed \div 2)
    ELSE Reverse(Rotate(StrUniverse, (seed \div 2) - 1))

\* the iteration order of the set of (("prefix", p),) tuples of line 90
tuple_hash_order(seed) ==
    LET o == str_hash_order(seed + 1)
    IN  [i \in 1..Len(o) |-> [prefix |-> JStr(o[i])]]

(***************************************************************************)
(* The process: the poll loop task, one handler task per websocket, the    *)
(* module-level _latest_snapshot and manager.active.                       *)
(***************************************************************************)

\* poll cycles the model follows
MaxCycles == 3

\* websocket connections the model follows
MaxSockets == 2

WebSockets == 1..MaxSockets

\* _latest_snapshot = None (line 26)
None == [none |-> TRUE]

\* the tasks of the event loop; NoTask: every task is suspended in an await
NoTask == [kind |-> "none", w |-> 0]
PollTask == [kind |-> "poll", w |-> 0]
WsTask(w) == [kind |-> "ws", w |-> w]
GetTask == [kind |-> "get", w |-> 0]

\* what `await fetch_bgp_data()` can end with (lines 54-64): a 200 answer with a
\* JSON body, another status, a ClientConnectorError, or any exception the
\* function does not catch (a timeout, a dropped connection, a body that is
\* no JSON)
FetchOutcomes ==
    {[kind |-> "json", doc |-> d] : d \in Docs}
    \cup {[kind |-> "status", doc |-> DocEmpty],
          [kind |-> "connector_error", doc |-> DocEmpty],
          [kind |-> "other_error", doc |-> DocEmpty]}

VARIABLES
    hashseed,         \* the hash seed of the process
    latest_snapshot,  \* _latest_snapshot
    active,           \* manager.active
    running,          \* the task that holds the event loop
    pollPc,           \* where poll_loop stands
    bgp_data,         \* fetch_topology's bgp_data
    routes,           \* fetch_topology's routes
    graph,            \* poll_loop's graph
    bcastTodo,        \* broadcast: the websockets of list(self.active) still to come
    bcastWs,          \* broadcast: the websocket whose send_text is awaited
    hPc,              \* where each websocket_endpoint task stands
    client,           \* the far end of each websocket
    hMsg,             \* the argument of the handler's send_text, once evaluated
    cycles,           \* poll cycles started
    version,          \* history: the cycle that stored _latest_snapshot
    sentVersion,      \* history: the version of the last message handed to each websocket
    initial,          \* history: the initial snapshot of each websocket
    cycle,            \* history: what the Detect step of this cycle saw and did
    fetch_failed,     \* history: this cycle's fetch reported no document
    prev_failed,      \* history: the cycle before reported no document
    bcastStart,       \* history: list(self.active) of the broadcast under way
    bcastAttempted,   \* history: the websockets this broadcast called send_text on
    bcastFailed,      \* history: the websockets whose send_text raised in this broadcast
    gPc,              \* where the get_topology task stands
    gResp             \* history: what get_topology saw and returned

vars == <<hashseed, latest_snapshot, active, running, pollPc, bgp_data, routes, graph,
          bcastTodo, bcastWs, hPc, client, hMsg, cycles, version, sentVersion, initial,
          cycle, fetch_failed, prev_failed, bcastStart, bcastAttempted, bcastFailed,
          gPc, gResp>>

getVars == <<gPc, gResp>>

NoResponse == [status |-> 0]

pollVars == <<pollPc, bgp_data, routes, graph, bcastTodo, bcastWs, cycles, cycle,
              fetch_failed, prev_failed, bcastStart, bcastAttempted, bcastFailed>>

wsVars == <<hPc, client, hMsg, initial>>

NoCycle == [seen |-> FALSE]

\* tasks that may be switched at any statement, as threads are
can_run_preemptive(task) == TRUE

\* asyncio runs one task at a time and switches only at an await
can_run(task) == running \in {NoTask, task}

Init ==
    /\ hashseed \in Seeds
    /\ latest_snapshot = None
    /\ active = {}
    /\ running = NoTask
    /\ pollPc = "start"
    /\ bgp_data = DocEmpty
    /\ routes = <<>>
    /\ graph = None
    /\ bcastTodo = {}
    /\ bcastWs = 0
    /\ hPc = [w \in WebSockets |-> "idle"]
    /\ client = [w \in WebSockets |-> "none"]
    /\ hMsg = [w \in WebSockets |-> 0]
    /\ cycles = 0
    /\ version = 0
    /\ sentVersion = [w \in WebSockets |-> 0]
    /\ initial = [w \in WebSockets |-> "none"]
    /\ cycle = NoCycle
    /\ fetch_failed = FALSE
    /\ prev_failed = FALSE
    /\ bcastStart = {}
    /\ bcastAttempted = {}
    /\ bcastFailed = {}
    /\ gPc = "idle"
    /\ gResp = NoResponse

(***************************************************************************)
(* STEP 1, 4 and 5: fetch_bgp_data (lines 54-64), fetch_topology           *)
(* (lines 182-197), poll_loop (lines 208-215)                              *)
(***************************************************************************)

\* lines 56-64: what fetch_bgp_data returns or raises
fetch_bgp_data(outcome) ==
    CASE outcome.kind = "json" -> Ok(outcome.doc)
      [] outcome.kind = "status" -> Ok(JDict(<<>>))
      [] outcome.kind = "connector_error" -> Ok(JDict(<<>>))
      [] OTHER -> Raise("Exception")

\* lines 182-197: fetch_topology as a whole; the orders are those of the
\* process's sets of tuples and of str
fetch_topology(outcome, tuple_order, str_order) ==
    LET data == fetch_bgp_data(outcome)
    IN  IF data.exc # "none"
        THEN data
        ELSE IF falsy(data.v)
             THEN Ok(EmptySnapshot)
             ELSE build_dynamic_topology(extract_routes(data.v, tuple_order), data.v,
                                         str_order)

\* lines 210-211, 183: the loop calls fetch_topology, which awaits fetch_bgp_data
PollFetchCall ==
    /\ can_run(PollTask)
    /\ pollPc = "start"
    /\ pollPc' = "fetching"
    /\ cycles' = cycles + 1
    /\ running' = NoTask
    /\ UNCHANGED <<getVars, hashseed, latest_snapshot, active, version, sentVersion, wsVars,
                   bgp_data, routes, graph, bcastTodo, bcastWs, cycle, fetch_failed,
                   prev_failed, bcastStart, bcastAttempted, bcastFailed>>

\* a test that keeps the last snapshot with content over an empty one
snapshot_changed_nonempty(g, latest) ==
    DOMAIN g # {} /\ (g.nodes # <<>> \/ g.edges # <<>>) /\ g # latest

\* line 212: `graph and graph != _latest_snapshot`; a dict with its two keys is
\* true, and two dicts are equal when their lists are equal item by item
snapshot_changed(g, latest) == DOMAIN g # {} /\ g # latest

\* lines 212-214 and 41: a changed snapshot is stored and the broadcast takes its
\* list(self.active); else the loop goes to its sleep
poll_detect(g) ==
    LET changed == snapshot_changed(g, latest_snapshot)
    IN  /\ graph' = g
        /\ cycle' = [seen |-> TRUE, prev |-> latest_snapshot, new |-> g,
                     changed |-> changed]
        /\ IF changed
           THEN /\ latest_snapshot' = g
                /\ version' = cycles
                /\ bcastTodo' = active
                /\ bcastStart' = active
                /\ pollPc' = "broadcast"
           ELSE /\ pollPc' = "sleep_call"
                /\ UNCHANGED <<latest_snapshot, version, bcastTodo, bcastStart>>
        /\ running' = PollTask

\* lines 211-214: fetch_bgp_data ends, fetch_topology runs on to its return and
\* the loop compares the graph with the stored snapshot; an exception that
\* nothing catches ends the task
PollFetchReturn ==
    /\ can_run(PollTask)
    /\ pollPc = "fetching"
    /\ \E outcome \in FetchOutcomes :
           LET r == fetch_topology(outcome, tuple_hash_order(hashseed),
                                   str_hash_order(hashseed))
           IN  IF r.exc # "none"
               THEN /\ pollPc' = "crashed"
                    /\ running' = NoTask
                    /\ UNCHANGED <<graph, fetch_failed, cycle, latest_snapshot, version,
                                   bcastTodo, bcastStart>>
               ELSE /\ fetch_failed' = (outcome.kind # "json")
                    /\ poll_detect(r.v)
    /\ UNCHANGED <<getVars, hashseed, active, sentVersion, wsVars, cycles, bgp_data, routes, bcastWs,
                   prev_failed, bcastAttempted, bcastFailed>>

(***************************************************************************)
(* ConnectionManager.broadcast (lines 40-45) and the sleep (line 215)      *)
(***************************************************************************)

\* ws.send_text(message), lines 43 and 236: the message is handed to the
\* connection in the order of the calls
send_text(w, v) == sentVersion' = [sentVersion EXCEPT ![w] = v]

\* lines 41-43: the next websocket of the list; send_text is called and awaited
PollBroadcastNext ==
    /\ can_run(PollTask)
    /\ pollPc = "broadcast"
    /\ \E w \in bcastTodo :
           /\ send_text(w, version)
           /\ bcastTodo' = bcastTodo \ {w}
           /\ bcastWs' = w
           /\ bcastAttempted' = bcastAttempted \cup {w}
    /\ pollPc' = "sending"
    /\ cycle' = NoCycle
    /\ running' = NoTask
    /\ UNCHANGED <<getVars, hashseed, latest_snapshot, active, version, wsVars, cycles, bgp_data,
                   routes, graph, fetch_failed, prev_failed, bcastStart, bcastFailed>>

\* an exception of send_text caught around the whole loop: the rest is skipped
broadcast_except_abort(w) ==
    /\ active' = active \ {w}
    /\ bcastFailed' = bcastFailed \cup {w}
    /\ bcastTodo' = {}

\* lines 44-45: an exception of send_text deregisters the websocket; the loop goes on
broadcast_except(w) ==
    /\ active' = active \ {w}
    /\ bcastFailed' = bcastFailed \cup {w}
    /\ UNCHANGED bcastTodo

\* line 43: the awaited send_text returns, or raises for a connection that is gone;
\* it does neither while the client does not read
PollSendReturn ==
    /\ can_run(PollTask)
    /\ pollPc = "sending"
    /\ client[bcastWs] # "stalled"
    /\ IF client[bcastWs] = "gone"
       THEN broadcast_except(bcastWs)
       ELSE UNCHANGED <<active, bcastFailed, bcastTodo>>
    /\ bcastWs' = 0
    /\ pollPc' = "broadcast"
    /\ running' = PollTask
    /\ UNCHANGED <<getVars, hashseed, latest_snapshot, version, sentVersion, wsVars, cycles, bgp_data,
                   routes, graph, cycle, fetch_failed, prev_failed, bcastStart,
                   bcastAttempted>>

\* line 215 after a broadcast: the list is done, the loop awaits asyncio.sleep
PollBroadcastEnd ==
    /\ can_run(PollTask)
    /\ pollPc = "broadcast"
    /\ bcastTodo = {}
    /\ pollPc' = "sleeping"
    /\ cycle' = NoCycle
    /\ bcastStart' = {}
    /\ bcastAttempted' = {}
    /\ bcastFailed' = {}
    /\ running' = NoTask
    /\ UNCHANGED <<getVars, hashseed, latest_snapshot, active, version, sentVersion, wsVars, cycles,
                   bgp_data, routes, graph, bcastTodo, bcastWs, fetch_failed, prev_failed>>

\* line 215 with no broadcast
PollSleepCall ==
    /\ can_run(PollTask)
    /\ pollPc = "sleep_call"
    /\ pollPc' = "sleeping"
    /\ cycle' = NoCycle
    /\ running' = NoTask
    /\ UNCHANGED <<getVars, hashseed, latest_snapshot, active, version, sentVersion, wsVars, cycles,
                   bgp_data, routes, graph, bcastTodo, bcastWs, fetch_failed, prev_failed,
                   bcastStart, bcastAttempted, bcastFailed>>

\* lines 215, 210-211: the sleep is over, the next cycle calls fetch_topology
PollSleepReturn ==
    /\ can_run(PollTask)
    /\ pollPc = "sleeping"
    /\ cycles < MaxCycles
    /\ pollPc' = "fetching"
    /\ cycles' = cycles + 1
    /\ prev_failed' = fetch_failed
    /\ fetch_failed' = FALSE
    /\ running' = NoTask
    /\ UNCHANGED <<getVars, hashseed, latest_snapshot, active, version, sentVersion, wsVars,
                   bgp_data, routes, graph, bcastTodo, bcastWs, cycle, bcastStart,
                   bcastAttempted, bcastFailed>>

(***************************************************************************)
(* STEP 6: websocket_endpoint (lines 231-240), ConnectionManager.connect   *)
(* and disconnect (lines 33-38)                                            *)
(***************************************************************************)

\* a client opens a connection: its handler task runs to `await websocket.accept()`
ClientConnect(w) ==
    /\ running = NoTask
    /\ hPc[w] = "idle"
    /\ hPc' = [hPc EXCEPT ![w] = "accepting"]
    /\ client' = [client EXCEPT ![w] = "open"]
    /\ UNCHANGED <<getVars, hashseed, latest_snapshot, active, running, version, sentVersion,
                   hMsg, initial, pollVars>>

\* the far end of a connection goes away
ClientDisconnect(w) ==
    /\ running = NoTask
    /\ client[w] = "open"
    /\ client' = [client EXCEPT ![w] = "gone"]
    /\ UNCHANGED <<getVars, hashseed, latest_snapshot, active, running, version, sentVersion,
                   hPc, hMsg, initial, pollVars>>

\* lines 34-35: accept returns and the websocket is registered, or accept raises
connect(w) ==
    /\ can_run(WsTask(w))
    /\ hPc[w] = "accepting"
    /\ IF client[w] = "gone"
       THEN /\ hPc' = [hPc EXCEPT ![w] = "failed"]
            /\ running' = NoTask
            /\ UNCHANGED <<active, initial>>
       ELSE /\ active' = active \cup {w}
            /\ hPc' = [hPc EXCEPT ![w] = "registered"]
            /\ initial' = [initial EXCEPT ![w] =
                              IF latest_snapshot # None THEN "due" ELSE "none"]
            /\ running' = WsTask(w)
    /\ UNCHANGED <<getVars, hashseed, latest_snapshot, version, sentVersion, client, hMsg, pollVars>>

\* a handler that goes to its receive loop without the initial message
HandlerEvalMessage_skip(w) ==
    /\ can_run(WsTask(w))
    /\ hPc[w] = "registered"
    /\ hPc' = [hPc EXCEPT ![w] = "receiving"]
    /\ running' = NoTask
    /\ UNCHANGED <<getVars, hashseed, latest_snapshot, active, version, sentVersion, client, initial,
                   hMsg, pollVars>>

\* lines 235-236: with a stored snapshot the message is built from it, else
\* the handler goes to its receive loop (line 238)
HandlerEvalMessage(w) ==
    /\ can_run(WsTask(w))
    /\ hPc[w] = "registered"
    /\ IF latest_snapshot # None
       THEN /\ hMsg' = [hMsg EXCEPT ![w] = version]
            /\ hPc' = [hPc EXCEPT ![w] = "send_call"]
            /\ running' = WsTask(w)
       ELSE /\ hPc' = [hPc EXCEPT ![w] = "receiving"]
            /\ running' = NoTask
            /\ UNCHANGED hMsg
    /\ UNCHANGED <<getVars, hashseed, latest_snapshot, active, version, sentVersion, client, initial,
                   pollVars>>

\* line 236: websocket.send_text is called with the message and awaited
HandlerSendCall(w) ==
    /\ can_run(WsTask(w))
    /\ hPc[w] = "send_call"
    /\ send_text(w, hMsg[w])
    /\ hMsg' = [hMsg EXCEPT ![w] = 0]
    /\ initial' = [initial EXCEPT ![w] = "sent"]
    /\ hPc' = [hPc EXCEPT ![w] = "sending"]
    /\ running' = NoTask
    /\ UNCHANGED <<getVars, hashseed, latest_snapshot, active, version, client, pollVars>>

\* line 240: manager.disconnect(websocket) in the handler of WebSocketDisconnect
endpoint_except(w) ==
    /\ active' = active \ {w}
    /\ hPc' = [hPc EXCEPT ![w] = "closed"]

\* line 236: the awaited send_text returns and the handler goes to line 238, or it
\* raises for a connection that is gone: WebSocketDisconnect, which line 239
\* catches, or another exception, which ends the task
HandlerSendReturn(w) ==
    /\ can_run(WsTask(w))
    /\ hPc[w] = "sending"
    /\ client[w] # "stalled"
    /\ IF client[w] = "gone"
       THEN \/ endpoint_except(w)
            \/ /\ hPc' = [hPc EXCEPT ![w] = "failed"]
               /\ UNCHANGED active
       ELSE /\ hPc' = [hPc EXCEPT ![w] = "receiving"]
            /\ UNCHANGED active
    /\ running' = NoTask
    /\ UNCHANGED <<getVars, hashseed, latest_snapshot, version, sentVersion, client, hMsg, initial,
                   pollVars>>

\* lines 238-240: receive_text raises WebSocketDisconnect for a connection that is gone
HandlerReceiveReturn(w) ==
    /\ can_run(WsTask(w))
    /\ hPc[w] = "receiving"
    /\ client[w] = "gone"
    /\ endpoint_except(w)
    /\ running' = NoTask
    /\ UNCHANGED <<getVars, hashseed, latest_snapshot, version, sentVersion, client, hMsg, initial,
                   pollVars>>

Next ==
    \/ PollFetchCall
    \/ PollFetchReturn
    \/ PollBroadcastNext
    \/ PollSendReturn
    \/ PollBroadcastEnd
    \/ PollSleepCall
    \/ PollSleepReturn
    \/ \E w \in WebSockets :
           \/ ClientConnect(w)
           \/ ClientDisconnect(w)
           \/ connect(w)
           \/ HandlerEvalMessage(w)
           \/ HandlerSendCall(w)
           \/ HandlerSendReturn(w)
           \/ HandlerReceiveReturn(w)

Spec == Init /\ [][Next]_vars

(***************************************************************************)
(* STEP 6: GET /api/topology (lines 221-228), beside the poll loop and one *)
(* websocket                                                               *)
(***************************************************************************)

NotReady == [status |-> 204, body |-> None]

\* a test of the wrong key: no edges, no answer
get_topology_response_edges(initial_graph) ==
    IF DOMAIN initial_graph = {} \/ initial_graph.edges = <<>>
    THEN NotReady
    ELSE [status |-> 200, body |-> initial_graph]

\* lines 225-227: 204 for a build that is empty or has no nodes, else the build
get_topology_response(initial_graph) ==
    IF DOMAIN initial_graph = {} \/ initial_graph.nodes = <<>>
    THEN NotReady
    ELSE [status |-> 200, body |-> initial_graph]

\* a handler that keeps its build as the stored snapshot
get_topology_return_caching(initial_graph) ==
    LET resp == get_topology_response(initial_graph)
    IN  /\ gResp' = [status |-> resp.status, body |-> resp.body, stored |-> None,
                     fetched |-> TRUE, built |-> initial_graph]
        /\ latest_snapshot' = initial_graph
        /\ UNCHANGED version

\* lines 224-227: the build is a local of the handler; _latest_snapshot is only read
get_topology_return(initial_graph) ==
    LET resp == get_topology_response(initial_graph)
    IN  /\ gResp' = [status |-> resp.status, body |-> resp.body, stored |-> None,
                     fetched |-> TRUE, built |-> initial_graph]
        /\ UNCHANGED <<latest_snapshot, version>>

\* lines 222-224, 228: a request arrives; with a stored snapshot it is answered at
\* once, else the handler awaits fetch_topology
GetTopologyCall ==
    /\ running = NoTask
    /\ gPc \in {"idle", "done"}
    /\ IF latest_snapshot = None
       THEN /\ gPc' = "fetching"
            /\ gResp' = NoResponse
       ELSE /\ gPc' = "done"
            /\ gResp' = [status |-> 200, body |-> latest_snapshot,
                         stored |-> latest_snapshot, fetched |-> FALSE, built |-> None]
    /\ UNCHANGED <<hashseed, latest_snapshot, active, running, version, sentVersion, wsVars,
                   pollVars>>

\* lines 224-227: fetch_topology returns its build, or raises and the request fails
GetTopologyFetchReturn ==
    /\ can_run(GetTask)
    /\ gPc = "fetching"
    /\ \E outcome \in FetchOutcomes :
           LET r == fetch_topology(outcome, tuple_hash_order(hashseed),
                                   str_hash_order(hashseed))
           IN  IF r.exc # "none"
               THEN /\ gResp' = [status |-> 500, body |-> None, stored |-> None,
                                 fetched |-> TRUE, built |-> None]
                    /\ UNCHANGED <<latest_snapshot, version>>
               ELSE get_topology_return(r.v)
    /\ gPc' = "done"
    /\ running' = NoTask
    /\ UNCHANGED <<hashseed, active, sentVersion, wsVars, pollVars>>

\* the websocket the query model follows
QuerySocket == CHOOSE w \in WebSockets : TRUE

QueryNext ==
    \/ PollFetchCall
    \/ PollFetchReturn
    \/ PollBroadcastNext
    \/ PollSendReturn
    \/ PollBroadcastEnd
    \/ PollSleepCall
    \/ PollSleepReturn
    \/ ClientConnect(QuerySocket)
    \/ ClientDisconnect(QuerySocket)
    \/ connect(QuerySocket)
    \/ HandlerEvalMessage(QuerySocket)
    \/ HandlerSendCall(QuerySocket)
    \/ HandlerSendReturn(QuerySocket)
    \/ HandlerReceiveReturn(QuerySocket)
    \/ GetTopologyCall
    \/ GetTopologyFetchReturn

QuerySpec == Init /\ [][QueryNext]_vars

(***************************************************************************)
(* A client that stops reading: the send_text awaited on its websocket     *)
(* (lines 43, 236) does not return.  Every task that can run is run.       *)
(***************************************************************************)

ClientStall(w) ==
    /\ running = NoTask
    /\ client[w] = "open"
    /\ client' = [client EXCEPT ![w] = "stalled"]
    /\ UNCHANGED <<getVars, hashseed, latest_snapshot, active, running, version, sentVersion,
                   hPc, hMsg, initial, pollVars>>

LiveNext ==
    \/ Next
    \/ \E w \in WebSockets : ClientStall(w)

\* the event loop runs every task that is ready
Fairness ==
    /\ WF_vars(PollFetchCall)
    /\ WF_vars(PollFetchReturn)
    /\ WF_vars(PollBroadcastNext)
    /\ WF_vars(PollSendReturn)
    /\ WF_vars(PollBroadcastEnd)
    /\ WF_vars(PollSleepCall)
    /\ WF_vars(PollSleepReturn)
    /\ \A w \in WebSockets :
           /\ WF_vars(connect(w))
           /\ WF_vars(HandlerEvalMessage(w))
           /\ WF_vars(HandlerSendCall(w))
           /\ WF_vars(HandlerSendReturn(w))
           /\ WF_vars(HandlerReceiveReturn(w))

LiveSpec == Init /\ [][LiveNext]_vars /\ Fairness

(***************************************************************************)
(* The Topology Builder alone: build_dynamic_topology called on a routes   *)
(* list and a document, in a process with any hash seed.                   *)
(***************************************************************************)

Entry(p) == [prefix |-> JStr(p)]

\* routes lists as a caller may pass them: with a prefix twice, with two
\* candidates of one last octet, with a prefix that is no str
RouteLists ==
    {<<>>,
     <<Entry(P1), Entry(P2)>>,
     <<Entry(P2), Entry(P1), Entry(P3)>>,
     <<Entry(P3), Entry(P3)>>,
     <<Entry(P1), Entry(P21), Entry(P2)>>,
     <<Entry(Subnet24), Entry(L12), Entry(P2)>>,
     <<Entry(P1), [prefix |-> JNull]>>,
     <<Entry(P1), Entry(Px), Entry(P2)>>,
     <<Entry(P0), Entry(P1)>>}

\* {"bgp-rib:rib": [{"loc-rib": ...}]}: a RIB entry with no "peer" key
DocNoPeers ==
    JDict(<< <<"bgp-rib:rib",
               JList(<<JDict(<< <<"loc-rib",
                                  JDict(<< <<"tables", JList(<<Table(<<P1, L12>>)>>)>> >>)>> >>)>>)>> >>)
\* "peer": []
DocEmptyPeers == RibDoc(<<P1, P2, L12>>, <<>>)
\* link strings whose third octet is "1x", "1" and "123" beside a regular one
DocOddLinks == RibDoc(<<P1, P2, Px>>, <<Peer(PeerId(NodeIp(<<"1">>)), <<L1x, L1, L123, L12>>)>>)

\* the documents the builder is called with
BuilderDocs == Docs \cup {DocNoPeers, DocEmptyPeers, DocOddLinks}

BuilderInit ==
    /\ hashseed \in Seeds
    /\ routes \in RouteLists
    /\ bgp_data \in BuilderDocs
    /\ graph = None
    /\ pollPc = "builder_call"
    /\ latest_snapshot = None
    /\ active = {}
    /\ running = NoTask
    /\ bcastTodo = {}
    /\ bcastWs = 0
    /\ hPc = [w \in WebSockets |-> "idle"]
    /\ client = [w \in WebSockets |-> "none"]
    /\ hMsg = [w \in WebSockets |-> 0]
    /\ cycles = 0
    /\ version = 0
    /\ sentVersion = [w \in WebSockets |-> 0]
    /\ initial = [w \in WebSockets |-> "none"]
    /\ cycle = NoCycle
    /\ fetch_failed = FALSE
    /\ prev_failed = FALSE
    /\ bcastStart = {}
    /\ bcastAttempted = {}
    /\ bcastFailed = {}
    /\ gPc = "idle"
    /\ gResp = NoResponse

\* build_dynamic_topology(routes, bgp_data) returns its snapshot or raises
BuilderCall ==
    /\ pollPc = "builder_call"
    /\ LET r == build_dynamic_topology(routes, bgp_data, str_hash_order(hashseed))
       IN  IF r.exc # "none"
           THEN /\ pollPc' = "builder_raised"
                /\ UNCHANGED graph
           ELSE /\ pollPc' = "builder_returned"
                /\ graph' = r.v
    /\ UNCHANGED <<getVars, hashseed, latest_snapshot, active, running, bgp_data, routes, bcastTodo,
                   bcastWs, hPc, client, hMsg, cycles, version, sentVersion, initial, cycle,
                   fetch_failed, prev_failed, bcastStart, bcastAttempted, bcastFailed>>

BuilderNext == BuilderCall

BuilderSpec == BuilderInit /\ [][BuilderNext]_vars

(***************************************************************************)
(* The Route Extractor alone: extract_routes called on documents whose     *)
(* tables, routes and peers are regular, empty or of another JSON type.    *)
(***************************************************************************)

\* a table with the given ipv4-route value
TableOf(ipv4_route) ==
    JDict(<< <<"bgp-inet:ipv4-routes", JDict(<< <<"ipv4-route", ipv4_route>> >>)>> >>)

\* tables as a document may hold them: regular ones, one without its nested
\* field, a str in place of the table, a str in place of a route, a route
\* without "prefix"
TableChoices ==
    {Table(<<P1>>),
     Table(<<P2, L12>>),
     JDict(<<>>),
     JStr(<<"x">>),
     TableOf(JList(<<Route(P3), JStr(<<"x">>)>>)),
     TableOf(JList(<<JDict(<<>>), Route(P3)>>))}

TableLists == {<<t>> : t \in TableChoices} \cup {<<t, u>> : t, u \in TableChoices}

\* peer lists: none, a regular peer, a str in place of the peer, a peer whose
\* "tables" is null
PeerLists ==
    {<<>>,
     <<Peer(PeerId(NodeIp(<<"1">>)), <<P3, L13>>)>>,
     <<JStr(<<"x">>), Peer(PeerId(NodeIp(<<"1">>)), <<P3>>)>>,
     <<JDict(<< <<"effective-rib-in", JDict(<< <<"tables", JNull>> >>)>> >>)>>}

AnomalyDoc(tables, peers) ==
    JDict(<< <<"bgp-rib:rib",
               JList(<<JDict(<< <<"loc-rib", JDict(<< <<"tables", JList(tables)>> >>)>>,
                                <<"peer", JList(peers)>> >>)>>)>> >>)

ExtractDocs == {AnomalyDoc(ts, ps) : ts \in TableLists, ps \in PeerLists}

ExtractInit ==
    /\ hashseed \in Seeds
    /\ bgp_data \in ExtractDocs
    /\ routes = <<>>
    /\ graph = None
    /\ pollPc = "extract_call"
    /\ latest_snapshot = None
    /\ active = {}
    /\ running = NoTask
    /\ bcastTodo = {}
    /\ bcastWs = 0
    /\ hPc = [w \in WebSockets |-> "idle"]
    /\ client = [w \in WebSockets |-> "none"]
    /\ hMsg = [w \in WebSockets |-> 0]
    /\ cycles = 0
    /\ version = 0
    /\ sentVersion = [w \in WebSockets |-> 0]
    /\ initial = [w \in WebSockets |-> "none"]
    /\ cycle = NoCycle
    /\ fetch_failed = FALSE
    /\ prev_failed = FALSE
    /\ bcastStart = {}
    /\ bcastAttempted = {}
    /\ bcastFailed = {}
    /\ gPc = "idle"
    /\ gResp = NoResponse

\* extract_routes(bgp_data) returns its list
ExtractCall ==
    /\ pollPc = "extract_call"
    /\ routes' = extract_routes(bgp_data, tuple_hash_order(hashseed))
    /\ pollPc' = "extract_returned"
    /\ UNCHANGED <<getVars, hashseed, latest_snapshot, active, running, bgp_data, graph, bcastTodo,
                   bcastWs, hPc, client, hMsg, cycles, version, sentVersion, initial, cycle,
                   fetch_failed, prev_failed, bcastStart, bcastAttempted, bcastFailed>>

ExtractNext == ExtractCall

ExtractSpec == ExtractInit /\ [][ExtractNext]_vars

(***************************************************************************)
(* Properties                                                              *)
(***************************************************************************)

NodeSet(g) == Range(g.nodes)
EdgeSet(g) == Range(g.edges)
NodeIds(g) == {n.id : n \in NodeSet(g)}

\* the equality of two snapshots as sets of nodes and sets of edges
SnapSetEq(a, b) ==
    IF a = None \/ b = None
    THEN a = b
    ELSE NodeSet(a) = NodeSet(b) /\ EdgeSet(a) = EdgeSet(b)

\* the node id a candidate prefix stands for: "R" and its last octet
NodeIdOf(p) == <<"R">> \o Last(split(split(p, <<"/">>)[1], <<".">>))

\* the candidate prefixes of a call: the routes of the node subnet and the
\* local router
Candidates(rs, doc) ==
    {rs[i].prefix.s : i \in {j \in 1..Len(rs) :
        /\ rs[j].prefix.t = "str"
        /\ startswith(rs[j].prefix.s, NodeMarker)
        /\ endswith(rs[j].prefix.s, Suffix32)}}
    \cup Range(local_ip_prefix(doc).v)

\* the link strings of a document whose third octet has two characters
TwoCharLinks(doc) ==
    {l \in find_prefixes_recursively(doc, LinkMarker) :
        Len(split(split(l, <<"/">>)[1], <<".">>)[3]) = 2}

EndX(l) == <<"R", split(split(l, <<"/">>)[1], <<".">>)[3][1]>>
EndY(l) == <<"R", split(split(l, <<"/">>)[1], <<".">>)[3][2]>>

EdgeBetween(g, a, b) ==
    \E e \in EdgeSet(g) : (e.from = a /\ e.to = b) \/ (e.from = b /\ e.to = a)

BuilderReturned == pollPc = "builder_returned"

\* C1: a poll cycle stores its snapshot and broadcasts if and only if the
\* snapshot differs from the stored one as a set of nodes and a set of edges,
\* whatever the order of the lists
C1_BroadcastIffSetsDiffer ==
    cycle.seen =>
        /\ cycle.changed <=> ~SnapSetEq(cycle.new, cycle.prev)
        /\ cycle.changed => (latest_snapshot = cycle.new /\ pollPc = "broadcast")
        /\ ~cycle.changed => (latest_snapshot = cycle.prev /\ pollPc = "sleep_call")

\* C2: the poll loop never terminates, whatever the fetch ends with and
\* whatever the document holds
C2_PollLoopNeverEnds == pollPc # "crashed"

\* C3: a websocket that connected while a snapshot was stored is in the
\* broadcast set only once its initial snapshot has been sent to it
C3_InitialBeforeRegistered == \A w \in active : initial[w] # "due"

\* C4: no websocket is sent an older snapshot after a newer one, the initial
\* snapshot of the handler included
C4_SnapshotsInOrder == [][\A w \in WebSockets : sentVersion'[w] >= sentVersion[w]]_vars

\* C4: a websocket got its initial snapshot and then a broadcast
C4_Witness ==
    \E w \in WebSockets : initial[w] = "sent" /\ w \in bcastAttempted /\ sentVersion[w] > 1

\* C5: a websocket whose send raised during a broadcast is out of the set at
\* once, and the broadcast still calls send_text on every websocket of its list
C5_FailureIsolated ==
    /\ bcastFailed \cap active = {}
    /\ pollPc \in {"broadcast", "sending"} => bcastAttempted \cup bcastTodo = bcastStart
    /\ (pollPc = "broadcast" /\ bcastTodo = {}) => bcastAttempted = bcastStart

\* C5: a broadcast is over in which every websocket of a list of two failed
C5_Witness ==
    /\ pollPc = "broadcast"
    /\ bcastTodo = {}
    /\ Cardinality(bcastFailed) >= 2
    /\ bcastAttempted = bcastStart

\* C6: in a returned snapshot every edge joins two nodes of the snapshot, the
\* nodes are those of the candidate prefixes and no other, and a link string
\* with third octet xy has its edge between Rx and Ry exactly when both are nodes
C6_EdgesJoinKnownNodes ==
    BuilderReturned =>
        /\ \A e \in EdgeSet(graph) : e.from \in NodeIds(graph) /\ e.to \in NodeIds(graph)
        /\ NodeIds(graph) = {NodeIdOf(p) : p \in Candidates(routes, bgp_data)}
        /\ \A l \in TwoCharLinks(bgp_data) :
               EdgeBetween(graph, EndX(l), EndY(l))
                   <=> (EndX(l) \in NodeIds(graph) /\ EndY(l) \in NodeIds(graph))

\* C6: a build with one link between two nodes and one link to a router that
\* is no node
C6_Witness ==
    /\ BuilderReturned
    /\ \E l \in TwoCharLinks(bgp_data) : EdgeBetween(graph, EndX(l), EndY(l))
    /\ \E l \in TwoCharLinks(bgp_data) :
           EndX(l) \in NodeIds(graph) /\ EndY(l) \notin NodeIds(graph)

\* C7: the end-to-end document gives nodes R1 (192.168.7.1) and R2
\* (192.168.7.2) and the one edge from R1 to R2 labelled 10.85.12.0/30
C7_EndToEnd ==
    (BuilderReturned /\ bgp_data = DocE2E /\ routes = <<Entry(P1), Entry(P2)>>) =>
        /\ NodeSet(graph) = {[id |-> <<"R", "1">>, label |-> NodeIp(<<"1">>)],
                             [id |-> <<"R", "2">>, label |-> NodeIp(<<"2">>)]}
        /\ EdgeSet(graph) = {[from |-> <<"R", "1">>, to |-> <<"R", "2">>, label |-> L12]}
        /\ Len(graph.nodes) = 2
        /\ Len(graph.edges) = 1

\* C8: a second call of the builder with the same routes and document, in a
\* process with any hash seed, returns the same set of nodes and set of edges
C8_Idempotent ==
    BuilderReturned =>
        \A seed \in Seeds :
            LET again == build_dynamic_topology(routes, bgp_data, str_hash_order(seed))
            IN  again.exc = "none" /\ SnapSetEq(again.v, graph)

\* C9: the node ids of a returned snapshot are distinct, and every candidate
\* prefix has exactly one node of its id
C9_NodeIdsUnique ==
    BuilderReturned =>
        /\ \A i, j \in 1..Len(graph.nodes) :
               graph.nodes[i].id = graph.nodes[j].id => i = j
        /\ \A p \in Candidates(routes, bgp_data) :
               Cardinality({i \in 1..Len(graph.nodes) : graph.nodes[i].id = NodeIdOf(p)}) = 1

\* C9: a build whose routes hold a prefix twice, or two prefixes of one last
\* octet, or the prefix of the local router
C9_Witness ==
    /\ BuilderReturned
    /\ \/ \E i, j \in 1..Len(routes) :
              /\ i # j
              /\ routes[i].prefix.s \in Candidates(routes, bgp_data)
              /\ NodeIdOf(routes[i].prefix.s) = NodeIdOf(routes[j].prefix.s)
       \/ \E i \in 1..Len(routes) : <<routes[i].prefix.s>> = local_ip_prefix(bgp_data).v

\* what Extract and Build give for the empty document
EmptyDocumentSnapshot ==
    build_dynamic_topology(extract_routes(DocEmpty, tuple_hash_order(hashseed)), DocEmpty,
                           str_hash_order(hashseed)).v

NonEmpty(snap) == snap # None /\ (snap.nodes # <<>> \/ snap.edges # <<>>)

\* C10: a cycle whose fetch reports no document yields the snapshot of the
\* empty document; over a non-empty stored snapshot it is stored and broadcast
\* to every registered websocket; the failing cycles that follow change nothing
C10_FetchFailureOverwrites ==
    (cycle.seen /\ fetch_failed) =>
        /\ cycle.new = EmptyDocumentSnapshot
        /\ NonEmpty(cycle.prev) =>
               /\ cycle.changed
               /\ latest_snapshot = cycle.new
               /\ pollPc = "broadcast"
               /\ bcastTodo = active
        /\ prev_failed =>
               /\ ~cycle.changed
               /\ latest_snapshot = cycle.prev
               /\ pollPc = "sleep_call"
               /\ bcastTodo = {}

\* C10: a failing cycle over a stored snapshot with nodes, with a websocket
\* registered
C10_Witness ==
    /\ cycle.seen
    /\ fetch_failed
    /\ NonEmpty(cycle.prev)
    /\ active # {}
    /\ bcastTodo = active

Digits == {"0", "1", "2", "3", "4", "5", "6", "7", "8", "9"}

AllDigits(s) == s # <<>> /\ \A i \in 1..Len(s) : s[i] \in Digits

\* the text of a prefix before its slash
AddressOf(p) == split(p, <<"/">>)[1]

\* the third dot-separated part of the address of a link string
ThirdOctet(l) ==
    LET parts == split(AddressOf(l), <<".">>)
    IN  IF Len(parts) >= 3 THEN parts[3] ELSE <<>>

\* four dot-separated numeric octets
IsDottedQuad(a) ==
    LET parts == split(a, <<".">>)
    IN  Len(parts) = 4 /\ \A i \in 1..Len(parts) : AllDigits(parts[i])

AllRoutesStr == \A i \in 1..Len(routes) : routes[i].prefix.t = "str"

\* the routes that match the node-address convention
RouteCandidates(rs) == Candidates(rs, DocEmpty)

\* C12: a link string whose third octet is not exactly two digits has no edge
\* in the returned snapshot
C12_OddThirdOctetSkipped ==
    BuilderReturned =>
        \A l \in find_prefixes_recursively(bgp_data, LinkMarker) :
            (Len(ThirdOctet(l)) = 2 /\ AllDigits(ThirdOctet(l)))
                \/ \A e \in EdgeSet(graph) : e.label # AddressOf(l) \o Suffix30

\* the first peer identifier of a document is missing: no RIB list, an empty
\* RIB list, no peers, an empty peer list, a first peer without peer-id
MissingPeerId(doc) ==
    \/ ~HasKey(doc, "bgp-rib:rib")
    \/ LET rib == Lookup(doc, "bgp-rib:rib")
       IN  /\ rib.t = "list"
           /\ \/ rib.items = <<>>
              \/ /\ rib.items[1].t = "dict"
                 /\ \/ ~HasKey(rib.items[1], "peer")
                    \/ LET peers == Lookup(rib.items[1], "peer")
                       IN  /\ peers.t = "list"
                           /\ \/ peers.items = <<>>
                              \/ /\ peers.items[1].t = "dict"
                                 /\ ~HasKey(peers.items[1], "peer-id")

\* C14: on a document whose first peer identifier is missing the build
\* returns, and its nodes are those of the routes of the node-address
\* convention, one for each, with no node for a local router
C14_NoPeerIdNoLocalNode ==
    (pollPc # "builder_call" /\ MissingPeerId(bgp_data) /\ AllRoutesStr) =>
        /\ BuilderReturned
        /\ NodeIds(graph) = {NodeIdOf(p) : p \in RouteCandidates(routes)}
        /\ \A n \in NodeSet(graph) : \E p \in RouteCandidates(routes) : n.label = AddressOf(p)
        /\ Len(graph.nodes) = Cardinality(NodeIds(graph))

\* C14: a build on each kind of document without a peer identifier, with
\* routes that give nodes
C14_Witness ==
    /\ BuilderReturned
    /\ routes = <<Entry(P2), Entry(P1), Entry(P3)>>
    /\ bgp_data \in {DocEmpty, DocEmptyRib, DocNoPeers, DocEmptyPeers, DocNoPeerId}
    /\ Len(graph.nodes) = 3

\* C15: the edge of a link string with third octet xy goes from Rx to Ry
C15_EdgeFromFirstDigit ==
    BuilderReturned =>
        \A l \in TwoCharLinks(bgp_data) :
            \A e \in EdgeSet(graph) :
                e.label = AddressOf(l) \o Suffix30 => (e.from = EndX(l) /\ e.to = EndY(l))

\* C18: a candidate prefix whose address is not four numeric octets has no
\* node in the returned snapshot
C18_MalformedCandidateSkipped ==
    BuilderReturned =>
        \A p \in Candidates(routes, bgp_data) :
            IsDottedQuad(AddressOf(p))
                \/ \A n \in NodeSet(graph) : n.label # AddressOf(p)

IsDictWith(v, k, t) == v.t = "dict" /\ HasKey(v, k) /\ Lookup(v, k).t = t

\* the prefixes of the route records of a table that has its nested fields
TablePrefixes(table) ==
    IF /\ IsDictWith(table, "bgp-inet:ipv4-routes", "dict")
       /\ IsDictWith(Lookup(table, "bgp-inet:ipv4-routes"), "ipv4-route", "list")
    THEN {Lookup(r, "prefix").s :
              r \in {x \in Range(Lookup(Lookup(table, "bgp-inet:ipv4-routes"), "ipv4-route").items) :
                         IsDictWith(x, "prefix", "str")}}
    ELSE {}

\* the prefixes of the tables of a loc-rib or effective-rib-in record
TablesPrefixes(holder) ==
    IF IsDictWith(holder, "tables", "list")
    THEN UNION {TablePrefixes(t) : t \in Range(Lookup(holder, "tables").items)}
    ELSE {}

\* the prefixes of every well-formed branch of a document
WellFormedPrefixes(doc) ==
    LET rib0 == Lookup(doc, "bgp-rib:rib").items[1]
        loc == IF IsDictWith(rib0, "loc-rib", "dict")
               THEN TablesPrefixes(Lookup(rib0, "loc-rib"))
               ELSE {}
        peers == IF IsDictWith(rib0, "peer", "list")
                 THEN UNION {IF IsDictWith(p, "effective-rib-in", "dict")
                             THEN TablesPrefixes(Lookup(p, "effective-rib-in"))
                             ELSE {} : p \in Range(Lookup(rib0, "peer").items)}
                 ELSE {}
    IN  loc \cup peers

\* C11: the list the extractor returns holds every prefix of the well-formed
\* tables of the document, whatever anomaly another branch has
C11_AnomalySkipsOnlyItsBranch ==
    pollPc = "extract_returned" =>
        WellFormedPrefixes(bgp_data) \subseteq {routes[i].prefix.s : i \in 1..Len(routes)}

\* C13: get_topology answers 204 only with nothing stored and an on-demand
\* build without nodes; with nothing stored and a build with nodes it answers
\* that build; with a snapshot stored, empty or not, it answers the stored
\* snapshot and does not fetch
C13_QueryAnswers ==
    gPc = "done" =>
        /\ gResp.status = 204 =>
               /\ gResp.stored = None
               /\ gResp.fetched
               /\ gResp.built # None
               /\ gResp.built.nodes = <<>>
        /\ (gResp.stored = None /\ gResp.built # None /\ gResp.built.nodes # <<>>) =>
               (gResp.status = 200 /\ gResp.body = gResp.built)
        /\ gResp.stored # None =>
               (gResp.status = 200 /\ gResp.body = gResp.stored /\ ~gResp.fetched)

\* C13: a request with nothing stored whose on-demand build has a node and
\* no edge
C13_Witness ==
    /\ gPc = "done"
    /\ gResp.fetched
    /\ gResp.built # None
    /\ gResp.built.nodes # <<>>
    /\ gResp.built.edges = <<>>
    /\ gResp.status = 200

\* C16: a broadcast that awaits a send always ends, the websockets still on
\* its list are sent to, and the poll loop comes to its sleep, also when a
\* client never takes what is written to it
C16_StalledClientNoStall ==
    /\ (pollPc = "sending") ~> (pollPc = "sleeping")
    /\ \A w \in WebSockets : (w \in bcastTodo) ~> (w \notin bcastTodo)

\* C19: _latest_snapshot changes only in the step of the poll loop that
\* stores a build; a step of get_topology changes neither manager.active nor
\* what was sent to a websocket, and starts no broadcast
C19_OnlyPollLoopStores ==
    [][/\ latest_snapshot' # latest_snapshot =>
              /\ pollPc = "fetching"
              /\ pollPc' = "broadcast"
              /\ UNCHANGED <<gPc, gResp, hPc, client, active>>
       /\ <<gPc, gResp>>' # <<gPc, gResp>> =>
              UNCHANGED <<latest_snapshot, active, sentVersion, bcastTodo, bcastWs, pollPc>>
      ]_vars

\* C19: get_topology has answered its own build with a websocket registered,
\* and nothing is stored
C19_Witness ==
    /\ gPc = "done"
    /\ gResp.fetched
    /\ gResp.status = 200
    /\ latest_snapshot = None
    /\ active # {}

\* C17: every websocket of manager.active has a handler task that has not
\* ended
C17_ActiveHaveLiveHandler == \A w \in active : hPc[w] \notin {"closed", "failed"}

\* C20: while the poll loop sleeps, a registered websocket that connected
\* with a snapshot stored and stands in its receive loop was last sent the
\* stored snapshot
C20_NoMissedSnapshot ==
    pollPc = "sleeping" =>
        \A w \in active :
            (hPc[w] = "receiving" /\ initial[w] # "none") => sentVersion[w] = version

\* C20: the poll loop sleeps after a second snapshot was stored, with every
\* websocket registered after its initial message
C20_Witness ==
    /\ pollPc = "sleeping"
    /\ version >= 2
    /\ active = WebSockets
    /\ \A w \in WebSockets : hPc[w] = "receiving" /\ initial[w] = "sent"

====
